---- MODULE Spec2Model ----
(***************************************************************************)
(* One render of latam-macro-dashboard/latam_macro.py, a linear script:    *)
(* download -> mandatory check -> data assembly -> returns -> rolling      *)
(* indicators -> warm-up drop -> market overview -> spread model ->        *)
(* momentum model -> gamma model -> trading summary.                       *)
(*                                                                         *)
(* A float is a cell: NaN, +-inf or a float64 value, kept exactly as sign,  *)
(* significand and exponent; the quotient, the difference and the product  *)
(* of pct_change, the return spread and the percent momentum are rounded   *)
(* as IEEE 754 rounds them, so a change of 100 to 102 is the float         *)
(* 2.0000000000000018 and two returns are equal when their floats are.     *)
(* The rolling standard deviation and the quotient of the z-score are      *)
(* library computations: the model computes exactly WHERE they are defined *)
(* and leaves their magnitude open (Untracked; the current z-score read by *)
(* the spread model ranges over ZVals).  A rolling std over a window of    *)
(* equal floats is kept as the number 0.                                   *)
(***************************************************************************)
EXTENDS Integers, Sequences, FiniteSets, TLC

\* ------------------------------------------------------------------ bounds
MaxShort == 3       \* rows of the equity index in the alignment family
MaxRows == 32       \* rows of the equity index in the warm-up family
TicksPerDay == 2    \* clock readings per day
MaxEvents == 2      \* configured event dates

\* ------------------------------------------------------- program constants
MIN_DATA_POINTS == 5
MinVolWindow == 5
MaxVolWindow == 30
DefaultVolWindow == 10
ZScoreWindow == 20
MomentumPeriods == 5

\* ------------------------------------------------------------------- cells
\* A cell is a float64 of a pandas column: NaN, +-inf, or the exact value
\* (-1)^neg * m * 2^e, with m a natural number of at most MantBits bits kept
\* odd (0 is m = << >>, e = 0), so that equal floats are equal cells.  m is a
\* sequence of limbs, least significant first, in base LimbBase.  Division,
\* subtraction and multiplication round to nearest, ties to even, as IEEE 754
\* does; exponent overflow and subnormals are out of the range of prices and
\* returns.  mag = "open" marks a finite float whose magnitude the model does
\* not track (a non-zero rolling std, a z-score).
MantBits == 53
LimbBits == 15
LimbBase == 2^15

RECURSIVE Pow2(_)
Pow2(n) == IF n = 0 THEN 1 ELSE 2 * Pow2(n - 1)

RECURSIVE BitLenSmall(_)
BitLenSmall(x) == IF x = 0 THEN 0 ELSE 1 + BitLenSmall(x \div 2)

RECURSIVE BigStrip(_)
BigStrip(a) ==
    IF Len(a) > 0 /\ a[Len(a)] = 0 THEN BigStrip(SubSeq(a, 1, Len(a) - 1))
    ELSE a

Limb(a, i) == IF i >= 1 /\ i <= Len(a) THEN a[i] ELSE 0
BigOfInt(n) ==
    BigStrip(<<n % LimbBase, (n \div LimbBase) % LimbBase,
               n \div (LimbBase * LimbBase)>>)
BigBitLen(a) ==
    IF Len(a) = 0 THEN 0
    ELSE LimbBits * (Len(a) - 1) + BitLenSmall(a[Len(a)])
BigBit(a, i) ==
    (Limb(a, (i \div LimbBits) + 1) \div Pow2(i % LimbBits)) % 2

BigCmp(a, b) ==
    IF Len(a) # Len(b) THEN (IF Len(a) > Len(b) THEN 1 ELSE -1)
    ELSE LET diff == {i \in 1..Len(a) : a[i] # b[i]}
         IN IF diff = {} THEN 0
            ELSE LET top == CHOOSE i \in diff : \A j \in diff : j <= i
                 IN IF a[top] > b[top] THEN 1 ELSE -1

BigAdd(a, b) ==
    LET n == (IF Len(a) > Len(b) THEN Len(a) ELSE Len(b)) + 1
        carry[i \in 0..n] ==
            IF i = 0 THEN 0
            ELSE (Limb(a, i) + Limb(b, i) + carry[i - 1]) \div LimbBase
    IN BigStrip([i \in 1..n |->
                    (Limb(a, i) + Limb(b, i) + carry[i - 1]) % LimbBase])

\* a - b for a >= b
BigSub(a, b) ==
    LET n == Len(a)
        borrow[i \in 0..n] ==
            IF i = 0 THEN 0
            ELSE IF Limb(a, i) - Limb(b, i) - borrow[i - 1] < 0 THEN 1 ELSE 0
    IN BigStrip([i \in 1..n |->
                    (Limb(a, i) - Limb(b, i) - borrow[i - 1] + LimbBase)
                        % LimbBase])

\* a * k for 0 <= k < LimbBase
BigMulSmall(a, k) ==
    LET n == Len(a) + 1
        carry[i \in 0..n] ==
            IF i = 0 THEN 0 ELSE (Limb(a, i) * k + carry[i - 1]) \div LimbBase
    IN BigStrip([i \in 1..n |-> (Limb(a, i) * k + carry[i - 1]) % LimbBase])

\* quotient and remainder of a by k, 0 < k < LimbBase
BigDivSmall(a, k) ==
    LET n == Len(a)
        rem[i \in 1..(n + 1)] ==
            IF i = n + 1 THEN 0 ELSE (rem[i + 1] * LimbBase + a[i]) % k
    IN [q |-> BigStrip([i \in 1..n |->
                  (rem[i + 1] * LimbBase + a[i]) \div k]),
        r |-> IF n = 0 THEN << >> ELSE BigOfInt(rem[1])]

BigShl(a, s) ==
    IF Len(a) = 0 THEN a
    ELSE [i \in 1..(s \div LimbBits) |-> 0]
             \o BigMulSmall(a, Pow2(s % LimbBits))

BigShr(a, s) ==
    IF s \div LimbBits >= Len(a) THEN << >>
    ELSE BigDivSmall(SubSeq(a, (s \div LimbBits) + 1, Len(a)),
                     Pow2(s % LimbBits)).q

\* the s lowest bits of a are all 0
BigLowZero(a, s) ==
    /\ \A i \in 1..(s \div LimbBits) : Limb(a, i) = 0
    /\ Limb(a, (s \div LimbBits) + 1) % Pow2(s % LimbBits) = 0

RECURSIVE TrailingZerosSmall(_)
TrailingZerosSmall(x) ==
    IF x % 2 = 1 THEN 0 ELSE 1 + TrailingZerosSmall(x \div 2)

\* for a # 0
BigTrailingZeros(a) ==
    LET first == CHOOSE i \in 1..Len(a) :
                     a[i] # 0 /\ \A j \in 1..(i - 1) : a[j] = 0
    IN LimbBits * (first - 1) + TrailingZerosSmall(a[first])

\* Long division, one bit of a at a time from the top: quotient and remainder
\* of a by b # 0, continuing from bit i with quotient q and remainder r.
RECURSIVE BigDivBits(_, _, _, _, _)
BigDivBits(a, b, i, q, r) ==
    IF Len(q) < 0 \/ i < 0 THEN [q |-> q, r |-> r]
    ELSE LET r2 == BigAdd(BigMulSmall(r, 2), BigOfInt(BigBit(a, i)))
         IN IF BigCmp(r2, b) >= 0
            THEN BigDivBits(a, b, i - 1,
                            BigAdd(BigMulSmall(q, 2), <<1>>), BigSub(r2, b))
            ELSE BigDivBits(a, b, i - 1, BigMulSmall(q, 2), r2)

BigDivMod(a, b) ==
    IF Len(b) = 1 THEN BigDivSmall(a, b[1])
    ELSE BigDivBits(a, b, BigBitLen(a) - 1, << >>, << >>)

NaN == [nan |-> TRUE, mag |-> "nan", neg |-> FALSE, m |-> << >>, e |-> 0]
Untracked == [nan |-> FALSE, mag |-> "open", neg |-> FALSE, m |-> << >>, e |-> 0]
Inf(neg) == [nan |-> FALSE, mag |-> "inf", neg |-> neg, m |-> << >>, e |-> 0]
Zero == [nan |-> FALSE, mag |-> "exact", neg |-> FALSE, m |-> << >>, e |-> 0]
IsExact(c) == ~c.nan /\ c.mag = "exact"
IsZero(c) == IsExact(c) /\ Len(c.m) = 0

\* The float nearest to (-1)^neg * big * 2^e, ties to even.
RoundFloat(neg, big, e) ==
    IF Len(big) = 0 THEN Zero
    ELSE LET len == BigBitLen(big)
             d == IF len > MantBits THEN len - MantBits ELSE 0
             q == BigShr(big, d)
             up == /\ d > 0
                   /\ BigBit(big, d - 1) = 1
                   /\ (~BigLowZero(big, d - 1) \/ BigBit(q, 0) = 1)
             q2 == IF up THEN BigAdd(q, <<1>>) ELSE q
             tz == BigTrailingZeros(q2)
         IN [nan |-> FALSE, mag |-> "exact", neg |-> neg,
             m |-> BigShr(q2, tz), e |-> e + d + tz]

\* The float of an integer, and of n * 2^e.
Scaled(n, e) == RoundFloat(n < 0, BigOfInt(IF n < 0 THEN 0 - n ELSE n), e)
Val(n) == Scaled(n, 0)

\* -1, 0, 1 as a < b, a = b, a > b, for floats that are not NaN or open.
CmpMagnitude(a, b) ==
    LET e == IF a.e < b.e THEN a.e ELSE b.e
    IN BigCmp(BigShl(a.m, a.e - e), BigShl(b.m, b.e - e))
Sign(c) == IF c.mag = "exact" /\ Len(c.m) = 0 THEN 0 ELSE IF c.neg THEN -1 ELSE 1
Cmp(a, b) ==
    IF Sign(a) # Sign(b) THEN (IF Sign(a) > Sign(b) THEN 1 ELSE -1)
    ELSE IF Sign(a) = 0 THEN 0
    ELSE IF a.mag = "inf" \/ b.mag = "inf"
        THEN (IF a.mag = b.mag THEN 0
              ELSE IF a.mag = "inf" THEN Sign(a) ELSE 0 - Sign(a))
    ELSE Sign(a) * CmpMagnitude(a, b)

\* Python float comparisons with an integer: every comparison with NaN is
\* False.
Gt(c, k) == ~c.nan /\ Cmp(c, Val(k)) > 0
Lt(c, k) == ~c.nan /\ Cmp(c, Val(k)) < 0
AbsGt(c, k) == ~c.nan /\ Cmp([c EXCEPT !.neg = FALSE], Val(k)) > 0
\* a == b
SameValue(a, b) == ~a.nan /\ ~b.nan /\ a = b

Negated(c) == IF c.nan \/ IsZero(c) THEN c ELSE [c EXCEPT !.neg = ~c.neg]

\* a + b
Plus(a, b) ==
    IF a.nan \/ b.nan THEN NaN
    ELSE IF a.mag = "inf" \/ b.mag = "inf" THEN
        (IF a.mag = "inf" /\ b.mag = "inf" /\ a.neg # b.neg THEN NaN
         ELSE IF a.mag = "inf" THEN a ELSE b)
    ELSE IF a.mag = "open" \/ b.mag = "open" THEN Untracked
    ELSE LET e == IF a.e < b.e THEN a.e ELSE b.e
             x == BigShl(a.m, a.e - e)
             y == BigShl(b.m, b.e - e)
         IN IF a.neg = b.neg THEN RoundFloat(a.neg, BigAdd(x, y), e)
            ELSE IF BigCmp(x, y) >= 0 THEN RoundFloat(a.neg, BigSub(x, y), e)
            ELSE RoundFloat(b.neg, BigSub(y, x), e)

\* a - b
Minus(a, b) == Plus(a, Negated(b))

\* a * k for an integer 0 < k < LimbBase
Times(a, k) ==
    IF a.nan \/ a.mag # "exact" THEN a
    ELSE RoundFloat(a.neg, BigMulSmall(a.m, k), a.e)

\* a / b: 0/0 is NaN, x/0 is inf, as numpy divides.
Divided(a, b) ==
    IF a.nan \/ b.nan THEN NaN
    ELSE IF a.mag = "inf" THEN
        (IF b.mag = "inf" THEN NaN ELSE Inf(a.neg # b.neg))
    ELSE IF b.mag = "inf" THEN Zero
    ELSE IF IsZero(b) THEN (IF IsZero(a) THEN NaN ELSE Inf(a.neg))
    ELSE IF IsZero(a) THEN Zero
    ELSE IF a.mag = "open" \/ b.mag = "open" THEN Untracked
    ELSE LET want == MantBits + 3 + BigBitLen(b.m) - BigBitLen(a.m)
             s == IF want > 0 THEN want ELSE 0
             d == BigDivMod(BigShl(a.m, s), b.m)
             sticky == IF Len(d.r) = 0 THEN << >> ELSE <<1>>
         IN RoundFloat(a.neg # b.neg,
                       BigAdd(BigMulSmall(d.q, 2), sticky),
                       a.e - b.e - s - 1)

\* ------------------------------------------------------------ data frames
\* A downloaded frame is [none, Close]: Close maps the frame's timestamps to
\* cells.  A table (df) is a sequence of rows in index order; a row maps
\* "index" to its timestamp and each column name to a cell.
None == [none |-> TRUE, Close |-> << >>]
Frame(close) == [none |-> FALSE, Close |-> close]
len(data) == Cardinality(DOMAIN data.Close)

RECURSIVE SortedIndex(_)
SortedIndex(S) ==
    IF S = {} THEN << >>
    ELSE LET m == CHOOSE x \in S : \A y \in S : x <= y
         IN <<m>> \o SortedIndex(S \ {m})

Columns(rows) == IF Len(rows) = 0 THEN {} ELSE DOMAIN rows[1] \ {"index"}
Column(rows, c) == [i \in 1..Len(rows) |-> rows[i][c]]
IndexOf(rows) == [i \in 1..Len(rows) |-> rows[i]["index"]]

\* df[name] = values, for values given by position.
SetColumn(rows, name, values) ==
    [i \in 1..Len(rows) |->
        [c \in DOMAIN rows[i] \cup {name} |->
            IF c = name THEN values[i] ELSE rows[i][c]]]

\* df[name] = series: pandas aligns the assigned series on the index; an index
\* entry the series lacks gets NaN.
AssignAligned(rows, name, series) ==
    SetColumn(rows, name,
        [i \in 1..Len(rows) |->
            IF rows[i]["index"] \in DOMAIN series
            THEN series[rows[i]["index"]] ELSE NaN])

ffillColumn(col) ==
    LET f[i \in 1..Len(col)] ==
            IF ~col[i].nan \/ i = 1 THEN col[i] ELSE f[i - 1]
    IN [i \in 1..Len(col) |-> f[i]]

bfillColumn(col) ==
    LET n == Len(col)
        b[i \in 1..n] == IF ~col[i].nan \/ i = n THEN col[i] ELSE b[i + 1]
    IN [i \in 1..n |-> b[i]]

ffill(rows) ==
    LET filled == [c \in Columns(rows) |-> ffillColumn(Column(rows, c))]
    IN [i \in 1..Len(rows) |->
           [c \in DOMAIN rows[i] |->
               IF c = "index" THEN rows[i][c] ELSE filled[c][i]]]

bfill(rows) ==
    LET filled == [c \in Columns(rows) |-> bfillColumn(Column(rows, c))]
    IN [i \in 1..Len(rows) |->
           [c \in DOMAIN rows[i] |->
               IF c = "index" THEN rows[i][c] ELSE filled[c][i]]]

RowComplete(r) == \A c \in DOMAIN r \ {"index"} : ~r[c].nan

dropna_equity_only(rows) ==
    SelectSeq(rows, LAMBDA r : ~r["Equity_Price"].nan)

dropna(rows) == SelectSeq(rows, RowComplete)

\* -------------------------------------------------------- indicator engine
\* Series.pct_change(periods): x / x.shift(periods) - 1 in float64, NaN for
\* the first rows.
pct_change_ratio_only(col, periods) ==
    [i \in 1..Len(col) |->
        IF i <= periods THEN NaN ELSE Divided(col[i], col[i - periods])]

pct_change(col, periods) ==
    [i \in 1..Len(col) |->
        IF i <= periods THEN NaN
        ELSE Minus(Divided(col[i], col[i - periods]), Val(1))]

\* prices.pct_change().dropna(): the series of the defined one-row changes,
\* keyed by timestamp.
calculate_returns(rows, name) ==
    LET chg == pct_change(Column(rows, name), 1)
        keep == {i \in 1..Len(rows) : ~chg[i].nan}
    IN [t \in {rows[i]["index"] : i \in keep} |->
           chg[CHOOSE i \in keep : rows[i]["index"] = t]]

\* A window holds an observation that is NaN or infinite.
Undefined(col, lo, hi) ==
    \E j \in lo..hi : j >= 1 /\ (col[j].nan \/ col[j].mag = "inf")

\* The std of a trailing window is 0 when its floats are all equal.
ZeroStd(returns, i, window) ==
    \A j \in (i - window + 1)..i : SameValue(returns[j], returns[i])

\* returns.rolling(window).std() * sqrt(252): defined once the trailing window
\* holds `window` defined observations; 0 over a window of equal returns,
\* otherwise a positive finite float.
calculate_volatility_short_window(returns, window) ==
    [i \in 1..Len(returns) |->
        IF i < window - 1 \/ Undefined(returns, i - window + 2, i) THEN NaN
        ELSE IF \A j \in (i - window + 2)..i :
                    j >= 1 => SameValue(returns[j], returns[i])
        THEN Zero
        ELSE Untracked]

calculate_volatility(returns, window) ==
    [i \in 1..Len(returns) |->
        IF i < window \/ Undefined(returns, i - window + 1, i) THEN NaN
        ELSE IF ZeroStd(returns, i, window) THEN Zero
        ELSE Untracked]

\* (series - rolling mean) / rolling std: NaN until the window is full; over a
\* window of equal floats the mean is the value and the std is 0, so the
\* quotient is 0/0 = NaN; otherwise a finite float.
calculate_zscore(series, window) ==
    [i \in 1..Len(series) |->
        IF i < window \/ Undefined(series, i - window + 1, i) THEN NaN
        ELSE IF ZeroStd(series, i, window) THEN NaN
        ELSE Untracked]

\* ------------------------------------------------------- signal classifier
Signal(class, text, idea) ==
    [signal_class |-> class, signal_text |-> text, trade_idea |-> idea]
NoSignal == Signal("", "", "")

SpreadSignal_inclusive(z) ==
    IF ~z.nan /\ ~Lt(z, 2) THEN
        Signal("signal-bearish", "BEARISH SPREAD SIGNAL",
               "Short equities, long FX (equities overvalued vs FX)")
    ELSE IF ~z.nan /\ ~Gt(z, -2) THEN
        Signal("signal-bullish", "BULLISH SPREAD SIGNAL",
               "Long equities, short FX (equities undervalued vs FX)")
    ELSE
        Signal("signal-neutral", "NEUTRAL SPREAD",
               "No significant divergence detected")

SpreadSignal(z) ==
    IF AbsGt(z, 2) THEN
        IF Gt(z, 2) THEN
            Signal("signal-bearish", "BEARISH SPREAD SIGNAL",
                   "Short equities, long FX (equities overvalued vs FX)")
        ELSE
            Signal("signal-bullish", "BULLISH SPREAD SIGNAL",
                   "Long equities, short FX (equities undervalued vs FX)")
    ELSE
        Signal("signal-neutral", "NEUTRAL SPREAD",
               "No significant divergence detected")

MomentumScore_same_threshold(e, f) ==
    (IF Gt(e, 2) THEN 1 ELSE IF Lt(e, -2) THEN -1 ELSE 0)
    + (IF Gt(f, 2) THEN 1 ELSE IF Lt(f, -2) THEN -1 ELSE 0)

MomentumScore(e, f) ==
    (IF Gt(e, 2) THEN 1 ELSE IF Lt(e, -2) THEN -1 ELSE 0)
    + (IF Gt(f, 1) THEN 1 ELSE IF Lt(f, -1) THEN -1 ELSE 0)

MomentumSignal(score) ==
    IF score > 0 THEN
        Signal("signal-bullish", "BULLISH MOMENTUM",
               "Consider long positions, momentum favors upside")
    ELSE IF score < 0 THEN
        Signal("signal-bearish", "BEARISH MOMENTUM",
               "Consider short positions, momentum favors downside")
    ELSE
        Signal("signal-neutral", "NEUTRAL MOMENTUM",
               "Mixed signals, wait for clearer direction")

\* An event date is a day number; strptime puts it at midnight.  The clock
\* reading `t` is in ticks.  timedelta.days is the floor of the difference in
\* days (negative for a past event).
DaysUntil(date, t) == (date * TicksPerDay - t) \div TicksPerDay

\* gamma_signal is kept as its words: the summary tests it for a substring.
Gamma(class, words, idea, days) ==
    [gamma_class |-> class, gamma_signal |-> words, gamma_idea |-> idea,
     nearest_event_days |-> days]
NoGamma == Gamma("", << >>, "", 0)

GammaSignal(events, t) ==
    IF Len(events) > 0 THEN
        LET days_until == {DaysUntil(events[i], t) : i \in 1..Len(events)}
            upcoming == {d \in days_until : d > 0}
        IN IF upcoming # {} THEN
               LET nearest == CHOOSE d \in upcoming : \A x \in upcoming : d <= x
               IN IF nearest <= 30 THEN
                      Gamma("signal-bullish", <<"GAMMA", "OPPORTUNITY">>,
                            "Buy straddles/strangles", nearest)
                  ELSE IF nearest <= 90 THEN
                      Gamma("signal-neutral", <<"MONITOR", "GAMMA">>,
                            "Prepare gamma positions", nearest)
                  ELSE
                      Gamma("signal-bearish", <<"NO", "GAMMA", "OPPORTUNITY">>,
                            "Too far from events, focus on other strategies",
                            nearest)
           ELSE Gamma("signal-bearish", <<"NO", "GAMMA", "OPPORTUNITY">>,
                      "No upcoming events detected", 0)
    ELSE Gamma("signal-bearish", <<"NO", "GAMMA", "OPPORTUNITY">>,
               "No events configured", 0)

\* "OPPORTUNITY" in gamma_signal
Contains(words, w) == \E i \in 1..Len(words) : words[i] = w

TradingSummary_text(z, score, gamma_signal) ==
    [spread |-> IF AbsGt(z, 2)
                THEN IF Gt(z, 2) THEN "Short equities, long FX"
                     ELSE "Long equities, short FX"
                ELSE "No spread signal",
     momentum |-> IF score > 0 THEN "Bullish momentum"
                  ELSE IF score < 0 THEN "Bearish momentum"
                  ELSE "Neutral momentum",
     gamma |-> IF Contains(gamma_signal, "OPPORTUNITY")
               THEN "Gamma opportunity detected"
               ELSE "No gamma opportunity"]
NoSummary == [spread |-> "", momentum |-> "", gamma |-> ""]

\* ------------------------------------------------------------------- state
VARIABLES
    provider,                 \* what the market data provider answers per ticker
    volatility_window,        \* the sidebar slider
    upcoming_events,          \* country_data['elections'], as day numbers
    now,                      \* datetime.now() read by the gamma model, in ticks
    equity_data, fx_data, local_equity_data,
    df,
    pc,                       \* the script's position
    emitted,                  \* widgets rendered so far
    error,                    \* the st.error message of a halt, or the exception
    current_zscore,
    spread,                   \* signal of the spread model
    current_equity_momentum, current_fx_momentum,
    momentum_score,
    momentum,                 \* signal of the momentum model
    gamma,                    \* signal of the gamma model
    summary

vars == <<provider, volatility_window, upcoming_events, now, equity_data,
          fx_data, local_equity_data, df, pc, emitted, error, current_zscore,
          spread, current_equity_momentum, current_fx_momentum, momentum_score,
          momentum, gamma, summary>>

inputs == <<provider, volatility_window, upcoming_events, now>>
downloads == <<equity_data, fx_data, local_equity_data>>
signals == <<current_zscore, spread, current_equity_momentum,
             current_fx_momentum, momentum_score, momentum, gamma, summary>>

Widget(kind, name) == [kind |-> kind, name |-> name]
SidebarWidgets == {Widget("sidebar", "debug")}
OverviewWidgets ==
    {Widget("chart", "price"), Widget("metric", "Equity ETF"),
     Widget("metric", "FX Rate"), Widget("metric", "Equity Volatility"),
     Widget("metric", "FX Volatility")}
SpreadWidgets ==
    {Widget("chart", "spread"), Widget("metric", "Current Spread"),
     Widget("metric", "Z-Score"), Widget("signal", "spread")}
MomentumWidgets ==
    {Widget("metric", "Equity Momentum (5d)"),
     Widget("metric", "FX Momentum (5d)"), Widget("metric", "Volatility Ratio")}

\* ------------------------------------------------------------------ script
\* yf.download behind the try/except: an exception or an empty frame is None.
download_market_data(answer) ==
    IF answer.raises \/ DOMAIN answer.Close = {} THEN None
    ELSE Frame(answer.Close)

\* Lines 123-148: the three downloads and the sidebar's debug lines.
DownloadAll ==
    /\ pc = "download"
    /\ equity_data' = download_market_data(provider.equity)
    /\ fx_data' = download_market_data(provider.fx)
    /\ local_equity_data' = download_market_data(provider.local_equity)
    /\ emitted' = emitted \cup SidebarWidgets
    /\ pc' = "check"
    /\ UNCHANGED <<inputs, df, error, signals>>

\* Lines 150-152.
CheckMandatory ==
    /\ pc = "check"
    /\ IF equity_data.none \/ len(equity_data) = 0
          \/ fx_data.none \/ len(fx_data) = 0
       THEN /\ error' = "Essential Equity (ETF) or FX data could not be downloaded"
            /\ pc' = "stopped"
       ELSE /\ error' = error
            /\ pc' = "assemble"
    /\ UNCHANGED <<inputs, downloads, df, emitted, signals>>

\* Lines 171-197: the table on the equity index, filled, with the fallback
\* (the FX_Price check of lines 192-194, which comes before the fallback and
\* does not depend on it, is made by DataAssembly on this table).
Assembled(equity, fx, local_equity) ==
    LET index == SortedIndex(DOMAIN equity.Close)
        df0 == [i \in 1..Len(index) |-> [c \in {"index"} |-> index[i]]]
        df1 == AssignAligned(df0, "Equity_Price", equity.Close)
        df2 == IF ~fx.none /\ len(fx) > 0
               THEN AssignAligned(df1, "FX_Price", fx.Close) ELSE df1
        df3 == IF ~local_equity.none /\ len(local_equity) >= MIN_DATA_POINTS
               THEN AssignAligned(df2, "Local_Equity_Price", local_equity.Close)
               ELSE df2
        df4 == bfill(ffill(df3))
    IN IF "Local_Equity_Price" \notin Columns(df4)
       THEN SetColumn(df4, "Local_Equity_Price", Column(df4, "Equity_Price"))
       ELSE df4

\* Lines 164-206.
DataAssembly ==
    /\ pc = "assemble"
    /\ LET filled == Assembled(equity_data, fx_data, local_equity_data)
           clean == dropna(filled)
       IN IF equity_data.none \/ len(equity_data) = 0
          THEN /\ error' = "Essential Equity (ETF) data could not be downloaded"
               /\ pc' = "stopped"
               /\ df' = df
          ELSE IF "FX_Price" \notin Columns(filled)
          THEN /\ error' = "FX data could not be loaded or aligned"
               /\ pc' = "stopped"
               /\ df' = filled
          ELSE IF Len(clean) = 0
          THEN /\ error' = "No overlapping data could be constructed"
               /\ pc' = "stopped"
               /\ df' = clean
          ELSE /\ error' = error
               /\ pc' = "returns"
               /\ df' = clean
    /\ UNCHANGED <<inputs, downloads, emitted, signals>>

\* Lines 209-213.
WithReturns(rows) ==
    LET r1 == AssignAligned(rows, "Equity_Returns",
                            calculate_returns(rows, "Equity_Price"))
        r2 == AssignAligned(r1, "FX_Returns",
                            calculate_returns(rows, "FX_Price"))
        r3 == AssignAligned(r2, "Local_Equity_Returns",
                            calculate_returns(rows, "Local_Equity_Price"))
    IN dropna(r3)

Returns ==
    /\ pc = "returns"
    /\ df' = WithReturns(df)
    /\ pc' = "rolling"
    /\ UNCHANGED <<inputs, downloads, emitted, error, signals>>

\* Lines 215-218.
WithRolling(rows, window) ==
    LET r1 == SetColumn(rows, "Equity_Volatility",
                  calculate_volatility(Column(rows, "Equity_Returns"), window))
        r2 == SetColumn(r1, "FX_Volatility",
                  calculate_volatility(Column(rows, "FX_Returns"), window))
        r3 == SetColumn(r2, "Return_Spread",
                  [i \in 1..Len(rows) |->
                      Minus(rows[i]["Equity_Returns"], rows[i]["FX_Returns"])])
    IN SetColumn(r3, "Spread_ZScore",
                 calculate_zscore(Column(r3, "Return_Spread"), ZScoreWindow))

Rolling ==
    /\ pc = "rolling"
    /\ df' = WithRolling(df, volatility_window)
    /\ pc' = "warmup"
    /\ UNCHANGED <<inputs, downloads, emitted, error, signals>>

\* Lines 220-225.
WarmupDrop_no_stop ==
    /\ pc = "warmup"
    /\ df' = dropna(df)
    /\ error' = error
    /\ pc' = "overview"
    /\ UNCHANGED <<inputs, downloads, emitted, signals>>

WarmupDrop ==
    /\ pc = "warmup"
    /\ df' = dropna(df)
    /\ IF Len(dropna(df)) = 0
       THEN /\ error' = "Not enough data to compute metrics after cleaning"
            /\ pc' = "stopped"
       ELSE /\ error' = error
            /\ pc' = "overview"
    /\ UNCHANGED <<inputs, downloads, emitted, signals>>

\* Lines 228-286: the price chart, then the key metrics, which read the last
\* two rows: iloc[-2] of a one-row column raises IndexError.
MarketOverview ==
    /\ pc = "overview"
    /\ IF Len(df) < 2
       THEN /\ emitted' = emitted \cup {Widget("chart", "price")}
            /\ error' = "IndexError: single positional indexer is out-of-bounds"
            /\ pc' = "crashed"
       ELSE /\ emitted' = emitted \cup OverviewWidgets
            /\ error' = error
            /\ pc' = "spread"
    /\ UNCHANGED <<inputs, downloads, df, signals>>

\* The current Spread_ZScore is a finite float wherever the column is defined;
\* its magnitude ranges over these values.
ZVals == {Scaled(-5, -1), Val(-2), Val(0), Val(2), Scaled(5, -1)}

\* Lines 288-343.
SpreadModel ==
    /\ pc = "spread"
    /\ \E z \in (IF df[Len(df)]["Spread_ZScore"].nan THEN {NaN} ELSE ZVals) :
          /\ current_zscore' = z
          /\ spread' = SpreadSignal(z)
    /\ emitted' = emitted \cup SpreadWidgets
    /\ pc' = "momentum_indicators"
    /\ UNCHANGED <<inputs, downloads, df, error, current_equity_momentum,
                   current_fx_momentum, momentum_score, momentum, gamma,
                   summary>>

\* Line 356: Equity_Volatility / FX_Volatility, row by row, on the volatility
\* columns as lines 215-216 computed them: NaN where either is NaN, 0/0 is
\* NaN, x/0 is inf, 0/x is 0.
VolatilityRatio(rows) ==
    [i \in 1..Len(rows) |->
        Divided(rows[i]["Equity_Volatility"], rows[i]["FX_Volatility"])]

\* Lines 354-356: the momentum columns over the table that is left after the
\* warm-up drop.
WithMomentum(rows) ==
    LET d1 == SetColumn(rows, "Equity_Momentum",
                  pct_change(Column(rows, "Equity_Price"), MomentumPeriods))
        d2 == SetColumn(d1, "FX_Momentum",
                  pct_change(Column(rows, "FX_Price"), MomentumPeriods))
    IN SetColumn(d2, "Volatility_Ratio", VolatilityRatio(rows))

\* Lines 350-370: the columns, and their current values in percent.
MomentumIndicators ==
    /\ pc = "momentum_indicators"
    /\ LET d == WithMomentum(df)
       IN /\ df' = d
          /\ current_equity_momentum' = Times(d[Len(d)]["Equity_Momentum"], 100)
          /\ current_fx_momentum' = Times(d[Len(d)]["FX_Momentum"], 100)
    /\ emitted' = emitted \cup MomentumWidgets
    /\ pc' = "momentum_signals"
    /\ UNCHANGED <<inputs, downloads, error, current_zscore, spread,
                   momentum_score, momentum, gamma, summary>>

\* Lines 372-401.
MomentumSignals ==
    /\ pc = "momentum_signals"
    /\ momentum_score' = MomentumScore(current_equity_momentum, current_fx_momentum)
    /\ momentum' = MomentumSignal(
                       MomentumScore(current_equity_momentum, current_fx_momentum))
    /\ emitted' = emitted \cup {Widget("signal", "momentum")}
    /\ pc' = "gamma"
    /\ UNCHANGED <<inputs, downloads, df, error, current_zscore, spread,
                   current_equity_momentum, current_fx_momentum, gamma, summary>>

\* Lines 403-470.
GammaModel ==
    /\ pc = "gamma"
    /\ gamma' = GammaSignal(upcoming_events, now)
    /\ emitted' = emitted \cup
          {Widget("signal", "gamma"), Widget("metric", "Avg Equity Vol"),
           Widget("metric", "Current Vol"), Widget("metric", "Vol Percentile")}
    /\ pc' = "summary"
    /\ UNCHANGED <<inputs, downloads, df, error, current_zscore, spread,
                   current_equity_momentum, current_fx_momentum, momentum_score,
                   momentum, summary>>

\* Lines 472-505.
TradingSummary ==
    /\ pc = "summary"
    /\ summary' = TradingSummary_text(current_zscore, momentum_score,
                                      gamma.gamma_signal)
    /\ emitted' = emitted \cup {Widget("summary", "trading")}
    /\ pc' = "done"
    /\ UNCHANGED <<inputs, downloads, df, error, current_zscore, spread,
                   current_equity_momentum, current_fx_momentum, momentum_score,
                   momentum, gamma>>

\* ------------------------------------------------------------------ inputs
Answer(close) == [raises |-> FALSE, Close |-> close]
Raises == [raises |-> TRUE, Close |-> << >>]

Linear(n, base, slope) == [t \in 1..n |-> Val(base + slope * (t - 1))]

Fresh ==
    /\ pc = "download"
    /\ equity_data = None /\ fx_data = None /\ local_equity_data = None
    /\ df = << >>
    /\ emitted = {}
    /\ error = ""
    /\ current_zscore = NaN
    /\ spread = NoSignal
    /\ current_equity_momentum = NaN /\ current_fx_momentum = NaN
    /\ momentum_score = 0
    /\ momentum = NoSignal
    /\ gamma = NoGamma
    /\ summary = NoSummary

\* Every alignment of a short equity index with an FX index and a local index:
\* closes that are NaN, timestamps the other series lacks, no common timestamp,
\* a failed or empty download.
LocalAnswers ==
    {Raises} \cup
    {Answer([t \in lo..(lo + k - 1) |-> Val(7)]) :
        lo \in 1..(MaxShort + 2), k \in {2, MIN_DATA_POINTS}}

InitAlignment ==
    /\ \E n \in 1..MaxShort, holes \in SUBSET (1..MaxShort),
          fx_index \in SUBSET (1..(MaxShort + 1)), loc \in LocalAnswers,
          eq_raises \in BOOLEAN, fx_raises \in BOOLEAN :
          /\ holes \subseteq 1..n
          /\ ~(eq_raises /\ holes # {})
          /\ ~(fx_raises /\ fx_index # {})
          /\ provider =
               [equity |-> IF eq_raises THEN Raises
                           ELSE Answer([t \in 1..n |->
                                    IF t \in holes THEN NaN ELSE Val(100 + t)]),
                fx |-> IF fx_raises THEN Raises
                       ELSE Answer([t \in fx_index |-> Val(5)]),
                local_equity |-> loc]
    /\ volatility_window = DefaultVolWindow
    /\ upcoming_events = <<20>>
    /\ now = 0
    /\ Fresh

\* The slider's ends and default, and the windows around the z-score window.
VolWindows ==
    {MinVolWindow, DefaultVolWindow, ZScoreWindow - 1, ZScoreWindow,
     ZScoreWindow + 1, MaxVolWindow}

\* Every length of history against these volatility windows, for a pair of
\* series whose return spread varies and for a flat pair.
InitWarmup ==
    /\ \E n \in 1..MaxRows, flat \in BOOLEAN :
          provider =
              [equity |-> Answer(Linear(n, 100, IF flat THEN 0 ELSE 1)),
               fx |-> Answer(Linear(n, 600, IF flat THEN 0 ELSE 1)),
               local_equity |-> Raises]
    /\ volatility_window \in VolWindows
    /\ upcoming_events = <<20>>
    /\ now = 0
    /\ Fresh

\* Rising, falling and quiet equity and FX series of full length, with the
\* local index present.  From 224 the last five rows of MaxRows rise from 250
\* to 255, a change of 2 percent that float64 rounds to 2.0000000000000018.
EquityShapes == {<<100, 1>>, <<224, 1>>, <<445, 1>>, <<300, -2>>}
FxShapes == {<<200, 1>>, <<600, 1>>, <<300, -1>>}

InitMomentum ==
    /\ \E e \in EquityShapes, f \in FxShapes :
          provider =
              [equity |-> Answer(Linear(MaxRows, e[1], e[2])),
               fx |-> Answer(Linear(MaxRows, f[1], f[2])),
               local_equity |-> Answer(Linear(MaxRows, 1000, 3))]
    /\ volatility_window = DefaultVolWindow
    /\ upcoming_events \in {<< >>, <<20>>, <<60>>, <<200>>}
    /\ now = 0
    /\ Fresh

\* Section 8's end-to-end scenario: 90 daily closes rising linearly from 100
\* to 120 (in units of 20/89: 445, 446, ..., 534) against FX flat at 5.
InitScenario ==
    /\ provider = [equity |-> Answer(Linear(90, 445, 1)),
                   fx |-> Answer(Linear(90, 5, 0)),
                   local_equity |-> Raises]
    /\ volatility_window \in VolWindows
    /\ upcoming_events = <<20>>
    /\ now = 0
    /\ Fresh

Init == InitAlignment \/ InitWarmup \/ InitMomentum \/ InitScenario

Next ==
    \/ DownloadAll
    \/ CheckMandatory
    \/ DataAssembly
    \/ Returns
    \/ Rolling
    \/ WarmupDrop
    \/ MarketOverview
    \/ SpreadModel
    \/ MomentumIndicators
    \/ MomentumSignals
    \/ GammaModel
    \/ TradingSummary

Spec == Init /\ [][Next]_vars

\* --------------------------------------------- the classifiers on their own
\* The signal classifier is a function of the current indicator values, the
\* configured event dates and the clock.  This specification starts the script
\* where the momentum signals are computed, over a sample table, with those
\* inputs drawn from the values around every threshold.
EVals == {NaN, Val(-3), Val(-2), Val(0), Val(2), Val(3)}
FVals == {NaN, Scaled(-3, -1), Val(-1), Val(0), Val(1), Scaled(3, -1)}
EventDays == {-1, 1, 30, 31, 90, 91, 92}
EventLists ==
    {SortedIndex(S) : S \in {T \in SUBSET EventDays : Cardinality(T) <= MaxEvents}}

SampleProvider ==
    [equity |-> Answer(Linear(27, 100, 1)), fx |-> Answer(Linear(27, 600, 1)),
     local_equity |-> Raises]

SampleTable ==
    LET clean == dropna(Assembled(download_market_data(SampleProvider.equity),
                                  download_market_data(SampleProvider.fx),
                                  download_market_data(SampleProvider.local_equity)))
    IN WithMomentum(dropna(WithRolling(WithReturns(clean), DefaultVolWindow)))

InitSignals ==
    /\ provider = SampleProvider
    /\ volatility_window = DefaultVolWindow
    /\ upcoming_events \in EventLists
    /\ now \in 0..(TicksPerDay - 1)
    /\ equity_data = download_market_data(SampleProvider.equity)
    /\ fx_data = download_market_data(SampleProvider.fx)
    /\ local_equity_data = download_market_data(SampleProvider.local_equity)
    /\ df = SampleTable
    /\ pc = "momentum_signals"
    /\ emitted = SidebarWidgets \cup OverviewWidgets \cup SpreadWidgets
                     \cup MomentumWidgets
    /\ error = ""
    /\ current_zscore \in ZVals
    /\ spread = SpreadSignal(current_zscore)
    /\ current_equity_momentum \in EVals
    /\ current_fx_momentum \in FVals
    /\ momentum_score = 0
    /\ momentum = NoSignal
    /\ gamma = NoGamma
    /\ summary = NoSummary

NextSignals ==
    \/ MomentumSignals
    \/ GammaModel
    \/ TradingSummary

SpecSignals == InitSignals /\ [][NextSignals]_vars

\* ------------------------------------------------------------------ claims
AfterSpread ==
    {"momentum_indicators", "momentum_signals", "gamma", "summary", "done"}
AfterMomentum == {"gamma", "summary", "done"}
AfterGamma == {"summary", "done"}
NotEnoughData == "Not enough data to compute metrics after cleaning"
NoOverlap == "No overlapping data could be constructed"

\* The table Data Assembly leaves for the downloaded frames.
CleanTable == dropna(Assembled(equity_data, fx_data, local_equity_data))

\* C1: whenever Data Assembly does not halt, every row of the table has a
\* defined Equity_Price and a defined FX_Price, and this stays so for the rest
\* of the render; the table that passes the assembly check is not empty.
C1_AssembledTableDefined ==
    /\ \A i \in 1..Len(df) :
          ~df[i]["Equity_Price"].nan /\ ~df[i]["FX_Price"].nan
    /\ pc = "returns" => Len(df) > 0

\* C1's case: the assembly went through for an equity series with an undefined
\* close and an FX series that lacks one of the equity timestamps.
C1_Witness ==
    /\ pc = "returns"
    /\ Len(df) > 1
    /\ \E t \in DOMAIN equity_data.Close : equity_data.Close[t].nan
    /\ \E t \in DOMAIN equity_data.Close : t \notin DOMAIN fx_data.Close

\* C2: the local-equity series is never fatal: after Data Assembly the rows
\* kept are exactly the rows the equity and FX columns alone would keep, and
\* the render halts with the assembly error only if those are none.
C2_LocalEquityNeverFatal ==
    /\ pc = "returns" =>
          IndexOf(df) = IndexOf(dropna(Assembled(equity_data, fx_data, None)))
    /\ (pc = "stopped" /\ error = NoOverlap) =>
          Len(dropna(Assembled(equity_data, fx_data, None))) = 0

\* C3: an indicator that is undefined at the most recent row for lack of
\* history raises no error, and the affected signal is Neutral with the
\* rationale "not enough data".
C3_UndefinedIndicatorIsNeutral ==
    /\ pc # "crashed"
    /\ (pc \in AfterMomentum
        /\ (current_equity_momentum.nan \/ current_fx_momentum.nan)) =>
          /\ momentum.signal_class = "signal-neutral"
          /\ momentum.trade_idea = "not enough data"

\* C4: no partial dashboard.  A render that has stopped has emitted no chart,
\* metric or signal; one that has emitted any has mandatory data, a non-empty
\* assembled table and a non-empty table after the warm-up drop; and no signal
\* is computed from an empty table.
Shown == {w \in emitted : w.kind # "sidebar"}
MandatoryAvailable ==
    /\ ~download_market_data(provider.equity).none
    /\ ~download_market_data(provider.fx).none
InputClean ==
    dropna(Assembled(download_market_data(provider.equity),
                     download_market_data(provider.fx),
                     download_market_data(provider.local_equity)))
InputUsable == dropna(WithRolling(WithReturns(InputClean), volatility_window))

C4_NoPartialDashboard ==
    /\ pc = "stopped" => Shown = {}
    /\ Shown # {} =>
          /\ MandatoryAvailable
          /\ Len(InputClean) > 0
          /\ Len(InputUsable) > 0
    /\ (spread # NoSignal \/ momentum # NoSignal \/ gamma # NoGamma) =>
          Len(df) > 0

\* C4's case: the third halting condition (nothing left after the warm-up
\* drop) has stopped a render whose first two checks passed.
C4_Witness ==
    /\ pc = "stopped"
    /\ error = NotEnoughData
    /\ Len(InputClean) > 0
    /\ Shown = {}

\* C5 as stated: in the end-to-end scenario the render completes with a
\* Bullish Momentum signal.
IsScenario ==
    /\ provider.equity = Answer(Linear(90, 445, 1))
    /\ provider.fx = Answer(Linear(90, 5, 0))

C5_ScenarioBullish ==
    (IsScenario /\ pc = "done") => momentum.signal_class = "signal-bullish"

\* C5 as amended: in the end-to-end scenario the render neither halts nor
\* raises, and the Momentum signal it produces is Neutral: the 5-day equity
\* change is (534/529 - 1) * 100 = 0.945179584120992 percent (under 2), the FX
\* change is 0, the score is 0.
C5_ScenarioNeutral ==
    IsScenario =>
        /\ pc \notin {"stopped", "crashed"}
        /\ pc \in AfterMomentum =>
              /\ current_equity_momentum =
                     [nan |-> FALSE, mag |-> "exact", neg |-> FALSE,
                      m |-> <<5647, 20565, 8052, 30>>,
                      e |-> -50]
              /\ current_fx_momentum = Zero
              /\ momentum_score = 0
              /\ momentum.signal_class = "signal-neutral"

C5_Witness == IsScenario /\ pc = "done" /\ Len(df) = 70

\* C6: with d the days until the nearest configured event later than now
\* (one less than a day away included), d <= 30 is Bullish, 30 < d <= 90 is
\* Neutral, d > 90 is Bearish; with no event later than now the label is
\* Bearish.
FutureEvents ==
    {i \in 1..Len(upcoming_events) : upcoming_events[i] * TicksPerDay > now}

C6_GammaOfNearestFutureEvent ==
    pc \in AfterGamma =>
        IF FutureEvents = {} THEN gamma.gamma_class = "signal-bearish"
        ELSE LET i == CHOOSE j \in FutureEvents :
                          \A k \in FutureEvents :
                              upcoming_events[j] <= upcoming_events[k]
                 d == DaysUntil(upcoming_events[i], now)
             IN /\ d <= 30 => gamma.gamma_class = "signal-bullish"
                /\ (d > 30 /\ d <= 90) => gamma.gamma_class = "signal-neutral"
                /\ d > 90 => gamma.gamma_class = "signal-bearish"

\* C7: the Spread signal is Bearish (short equities, long FX) for z > 2,
\* Bullish (long equities, short FX) for z < -2 and Neutral for every z in
\* [-2, 2], the two ends included; the current z-score is defined.
C7_SpreadThresholdsStrict ==
    pc \in AfterSpread =>
        /\ ~current_zscore.nan
        /\ spread.signal_class =
              IF Cmp(current_zscore, Val(2)) = 1 THEN "signal-bearish"
              ELSE IF Cmp(current_zscore, Val(-2)) = -1 THEN "signal-bullish"
              ELSE "signal-neutral"
        /\ spread.signal_class = "signal-bearish" =>
              spread.trade_idea =
                  "Short equities, long FX (equities overvalued vs FX)"
        /\ spread.signal_class = "signal-bullish" =>
              spread.trade_idea =
                  "Long equities, short FX (equities undervalued vs FX)"

\* C7's case: a z-score of exactly 2 was classified, as Neutral.
C7_Witness ==
    /\ pc = "done"
    /\ current_zscore = Val(2)
    /\ spread.signal_class = "signal-neutral"

\* C8: for defined 5-day percent changes e and f the score is p(e) + q(f),
\* p = +1 above 2, -1 below -2, q = +1 above 1, -1 below -1, else 0; the label
\* is Bullish, Bearish or Neutral as the score is positive, negative or 0, and
\* the score lies in -2..2.
Points(c, threshold) ==
    IF Cmp(c, Val(threshold)) = 1 THEN 1
    ELSE IF Cmp(c, Val(0 - threshold)) = -1 THEN -1
    ELSE 0

C8_MomentumScore ==
    (pc \in AfterMomentum /\ ~current_equity_momentum.nan
     /\ ~current_fx_momentum.nan) =>
        /\ momentum_score =
              Points(current_equity_momentum, 2) + Points(current_fx_momentum, 1)
        /\ momentum_score \in -2..2
        /\ momentum.signal_class =
              IF momentum_score > 0 THEN "signal-bullish"
              ELSE IF momentum_score < 0 THEN "signal-bearish"
              ELSE "signal-neutral"

\* C8's case: an equity point and an opposite FX point (one between the two
\* thresholds) cancel to Neutral.
C8_Witness ==
    /\ pc = "done"
    /\ current_equity_momentum = Val(3)
    /\ current_fx_momentum = Scaled(-3, -1)
    /\ momentum_score = 0
    /\ momentum.signal_class = "signal-neutral"

\* C9: warm-up accounting for a cleaned table of N rows and window W, when no
\* rolling std of the return spread is zero: returns are undefined at row 0
\* only; volatility is undefined for the first W-1 return rows and the z-score
\* for the first 19; the table used for signals is the last
\* max(0, N - max(W, 20)) rows; the render halts with the not-enough-data error
\* exactly when N <= max(W, 20).
WarmupRows ==
    IF volatility_window > ZScoreWindow THEN volatility_window ELSE ZScoreWindow
NoZeroStd ==
    LET r == WithRolling(WithReturns(CleanTable), volatility_window)
    IN \A i \in ZScoreWindow..Len(r) :
           ~ZeroStd(Column(r, "Return_Spread"), i, ZScoreWindow)
PastWarmup ==
    \/ pc \in {"overview", "spread", "crashed"} \cup AfterSpread
    \/ pc = "stopped" /\ error = NotEnoughData

C9_WarmupAccounting ==
    /\ pc = "rolling" => IndexOf(df) = Tail(IndexOf(CleanTable))
    /\ pc = "warmup" =>
          (\/ (\A i \in 1..Len(df) :
                  /\ (df[i]["Equity_Volatility"].nan
                         <=> (i <= volatility_window - 1))
                  /\ (df[i]["FX_Volatility"].nan
                         <=> (i <= volatility_window - 1))
                  /\ (df[i]["Spread_ZScore"].nan <=> (i <= ZScoreWindow - 1)))
           \/ ~NoZeroStd)
    /\ PastWarmup =>
          (\/ (/\ IndexOf(df) = SubSeq(IndexOf(CleanTable), WarmupRows + 1,
                                       Len(CleanTable))
               /\ ((pc = "stopped") <=> (Len(CleanTable) <= WarmupRows)))
           \/ ~NoZeroStd)

\* C9's cases: a window above 20 decided the warm-up and rows were left.
C9_Witness ==
    /\ pc = "overview"
    /\ volatility_window > ZScoreWindow
    /\ Len(df) = Len(CleanTable) - volatility_window
    /\ Len(df) >= 1
    /\ NoZeroStd

\* C10: in every completed render the Trading Summary agrees with the model
\* signals: a spread trade exactly for a Bearish or Bullish Spread signal, the
\* momentum line by the Momentum label, and "Gamma opportunity detected"
\* exactly for the Bullish GAMMA OPPORTUNITY label.
C10_SummaryAgreesWithSignals ==
    pc = "done" =>
        /\ summary.spread = "Short equities, long FX"
              <=> spread.signal_class = "signal-bearish"
        /\ summary.spread = "Long equities, short FX"
              <=> spread.signal_class = "signal-bullish"
        /\ summary.spread = "No spread signal"
              <=> spread.signal_class = "signal-neutral"
        /\ summary.momentum = "Bullish momentum"
              <=> momentum.signal_class = "signal-bullish"
        /\ summary.momentum = "Bearish momentum"
              <=> momentum.signal_class = "signal-bearish"
        /\ summary.momentum = "Neutral momentum"
              <=> momentum.signal_class = "signal-neutral"
        /\ summary.gamma = "Gamma opportunity detected"
              <=> gamma.gamma_class = "signal-bullish"
        /\ summary.gamma = "No gamma opportunity"
              <=> gamma.gamma_class \in {"signal-neutral", "signal-bearish"}

====
